---- MODULE Spec2Model ----
(***************************************************************************)
(* Model of timegaps' time categorisation logic:                           *)
(*   src/timegaps/timediff.py    calendar based age measures               *)
(*   src/timegaps/timefilter.py  TimeFilter.__init__, TimeFilter.filter,   *)
(*                               _Timedelta                                *)
(* A datetime is a record [year, month, day, hour, minute, second], as     *)
(* Python's datetime.datetime (microseconds are never read by the code     *)
(* paths modelled here other than through the comparison t > ref; the      *)
(* timestamps used have microsecond 0).                                    *)
(***************************************************************************)
EXTENDS Integers, Sequences, FiniteSets, TLC

(***************************************************************************)
(* Bounds of the model.                                                    *)
(***************************************************************************)
\* Largest number of items in the exhaustively enumerated item sequences.
MaxItems == 3

(***************************************************************************)
(* Proleptic Gregorian calendar, as used by datetime.date.                 *)
(***************************************************************************)
DT(y, mo, d, h, mi, s) ==
    [year |-> y, month |-> mo, day |-> d, hour |-> h, minute |-> mi, second |-> s]

IsLeap(y) == (y % 4 = 0) /\ ((y % 100 # 0) \/ (y % 400 = 0))

DaysInMonth(y, m) ==
    IF m = 2 THEN (IF IsLeap(y) THEN 29 ELSE 28)
    ELSE IF m \in {4, 6, 9, 11} THEN 30 ELSE 31

\* number of days before January 1st of year y
DaysBeforeYear(y) ==
    LET p == y - 1 IN p * 365 + (p \div 4) - (p \div 100) + (p \div 400)

\* number of days in year y preceding the first day of month m
DaysBeforeMonth(y, m) ==
    <<0, 31, 59, 90, 120, 151, 181, 212, 243, 273, 304, 334>>[m]
        + (IF m > 2 /\ IsLeap(y) THEN 1 ELSE 0)

\* date.toordinal(): 0001-01-01 is day 1
ToOrdinal(t) == DaysBeforeYear(t.year) + DaysBeforeMonth(t.year, t.month) + t.day

\* date.weekday() of the day of ordinal o: Monday is 0, Sunday is 6
Weekday(o) == (o + 6) % 7

RECURSIVE MonthOfDay(_, _, _)
\* <<month, day>> of the n-th day (n >= 0) of year y, scanning from month m
MonthOfDay(y, m, n) ==
    IF n < DaysInMonth(y, m) THEN <<m, n + 1>>
    ELSE MonthOfDay(y, m + 1, n - DaysInMonth(y, m))

\* date.fromordinal(n) as <<year, month, day>>
FromOrdinal(n) ==
    LET n0   == n - 1
        n400 == n0 \div 146097
        r400 == n0 % 146097
        n100 == r400 \div 36524
        r100 == r400 % 36524
        n4   == r100 \div 1461
        r4   == r100 % 1461
        n1   == r4 \div 365
        r1   == r4 % 365
        y    == n400 * 400 + n100 * 100 + n4 * 4 + n1 + 1
    IN  IF n1 = 4 \/ n100 = 4 THEN <<y - 1, 12, 31>>
        ELSE LET md == MonthOfDay(y, 1, r1) IN <<y, md[1], md[2]>>

\* seconds since midnight
SecondOfDay(t) == t.hour * 3600 + t.minute * 60 + t.second

\* datetime - timedelta(seconds=delta); delta may be negative
MinusSeconds(t, delta) ==
    LET tot == SecondOfDay(t) - delta
        o   == ToOrdinal(t) + (tot \div 86400)
        sod == tot % 86400
        ymd == FromOrdinal(o)
    IN  DT(ymd[1], ymd[2], ymd[3], sod \div 3600, (sod % 3600) \div 60, sod % 60)

\* datetime comparison t1 > t2
Later(t1, t2) ==
    \/ ToOrdinal(t1) > ToOrdinal(t2)
    \/ ToOrdinal(t1) = ToOrdinal(t2) /\ SecondOfDay(t1) > SecondOfDay(t2)

(***************************************************************************)
(* timediff.py                                                             *)
(***************************************************************************)
\* hours(t1, t2): both truncated to the full hour, difference in seconds // 3600
hours(t1, t2) ==
    ((ToOrdinal(t2) - ToOrdinal(t1)) * 86400 + (t2.hour - t1.hour) * 3600) \div 3600

\* days(t1, t2): difference of the calendar dates
days(t1, t2) == ToOrdinal(t2) - ToOrdinal(t1)

\* weeks(t1, t2): difference of the Mondays of the two calendar weeks, // 7
weeks(t1, t2) ==
    LET o1 == ToOrdinal(t1)
        o2 == ToOrdinal(t2)
    IN  ((o2 - Weekday(o2)) - (o1 - Weekday(o1))) \div 7

\* variant of months that leaves the years out
monthsOfYear(t1, t2) == t2.month - t1.month

\* months(t1, t2): difference of the calendar months
months(t1, t2) == (t2.year - t1.year) * 12 + (t2.month - t1.month)

\* years(t1, t2): difference of the calendar years
years(t1, t2) == t2.year - t1.year

(***************************************************************************)
(* timefilter.py: TimeFilter                                               *)
(***************************************************************************)
\* TimeFilter.valid_categories, old -> young
valid_categories == <<"years", "months", "weeks", "days", "hours", "recent">>

\* the category scan order of filter(), young -> old, without 'recent'
ScanOrder == <<"hours", "days", "weeks", "months", "years">>

Range(s) == {s[i] : i \in DOMAIN s}

\* a validation that refuses every count that is not positive
RulesInvalidNonPositive(userrules) ==
    \/ DOMAIN userrules = {}
    \/ \E l \in DOMAIN userrules : userrules[l] <= 0
    \/ \E l \in DOMAIN userrules : l \notin Range(valid_categories)

\* __init__ raises TimeFilterError for the user's rules dictionary
RulesInvalid(userrules) ==
    \/ DOMAIN userrules = {}
    \/ \E l \in DOMAIN userrules : userrules[l] < 0
    \/ \E l \in DOMAIN userrules : l \notin Range(valid_categories)
    \/ ~ \E l \in DOMAIN userrules : userrules[l] > 0

\* a completion that sets every category to its default
FillRulesDefaults(userrules) ==
    [i \in DOMAIN valid_categories |-> <<valid_categories[i], 0>>]

\* self.rules: an OrderedDict, modelled as the sequence of its <<label, count>>
\* pairs in the order of valid_categories
FillRules(userrules) ==
    [i \in DOMAIN valid_categories |->
        <<valid_categories[i],
          IF valid_categories[i] \in DOMAIN userrules
          THEN userrules[valid_categories[i]] ELSE 0>>]

\* self.rules[label]
RuleCount(r, label) ==
    LET i == CHOOSE j \in DOMAIN r : r[j][1] = label IN r[i][2]

\* list(self.rules.keys())[:-1]
DictLabels(r) == [i \in 1..(Len(r) - 1) |-> r[i][1]]

(***************************************************************************)
(* timefilter.py: _Timedelta                                               *)
(***************************************************************************)
\* variant of TimedeltaError that tests t >= ref
TimedeltaErrorOrEqual(t, ref) == ~ Later(ref, t)

\* _Timedelta.__init__ raises _TimedeltaError
TimedeltaError(t, ref) == Later(t, ref)

\* the fields of _Timedelta(t, ref)
Timedelta(t, ref) ==
    [hours  |-> hours(t, ref),
     days   |-> days(t, ref),
     weeks  |-> weeks(t, ref),
     months |-> months(t, ref),
     years  |-> years(t, ref)]

VARIABLES
    userrules,      \* the `rules` argument of TimeFilter.__init__
    reftime,        \* self.reftime
    moddate,        \* item identity -> obj.moddate
    objs,           \* the argument of filter(), a sequence of item identities
    pc,             \* position of the program
    rules,          \* self.rules
    dicts,          \* self._years_dict .. self._hours_dict, by label
    recent_items,   \* self._recent_items
    idx,            \* position of the categorisation loop in objs
    result,         \* the value returned by filter()
    history,        \* how the earlier filter() calls on this TimeFilter ended
    threads,        \* the invocations of filter() that run at the same time on
                    \* the TimeFilter, each with its locals (none when the calls
                    \* follow one another)
    heap,           \* the dictionaries and lists these invocations have created
    bound           \* which of them each attribute of the TimeFilter refers to

vars == <<userrules, reftime, moddate, objs, pc, rules, dicts, recent_items,
          idx, result, history, threads, heap, bound>>

NoResult == [accepted |-> <<>>, rejected |-> <<>>, returned |-> FALSE]


(***************************************************************************)
(* timefilter.py: TimeFilter.filter, helpers                               *)
(***************************************************************************)
\* getattr(self, "_%s_dict" % c)[timecount].append(obj) on a defaultdict(list)
BucketAppend(d, c, timecount, obj) ==
    [d EXCEPT ![c] =
        IF timecount \in DOMAIN d[c]
        THEN [d[c] EXCEPT ![timecount] = Append(@, obj)]
        ELSE [n \in DOMAIN d[c] \cup {timecount} |->
                IF n = timecount THEN <<obj>> ELSE d[c][n]]]

RECURSIVE DispatchStrict(_, _, _, _, _)
\* variant of Dispatch whose window test is 0 < timecount < rules[catlabel]
DispatchStrict(d, r, td, obj, k) ==
    IF k > Len(ScanOrder) THEN d
    ELSE IF 0 < td[ScanOrder[k]] /\ td[ScanOrder[k]] < RuleCount(r, ScanOrder[k])
         THEN DispatchStrict(BucketAppend(d, ScanOrder[k], td[ScanOrder[k]], obj),
                             r, td, obj, k + 1)
         ELSE DispatchStrict(d, r, td, obj, k + 1)

RECURSIVE DispatchBreak(_, _, _, _, _)
\* variant of Dispatch that leaves the scan after the first append
DispatchBreak(d, r, td, obj, k) ==
    IF k > Len(ScanOrder) THEN d
    ELSE IF 0 < td[ScanOrder[k]] /\ td[ScanOrder[k]] <= RuleCount(r, ScanOrder[k])
         THEN BucketAppend(d, ScanOrder[k], td[ScanOrder[k]], obj)
         ELSE DispatchBreak(d, r, td, obj, k + 1)

RECURSIVE DispatchNoUpper(_, _, _, _, _)
\* variant of Dispatch whose window test is 0 < timecount for a requested category
DispatchNoUpper(d, r, td, obj, k) ==
    IF k > Len(ScanOrder) THEN d
    ELSE IF 0 < td[ScanOrder[k]] /\ 0 < RuleCount(r, ScanOrder[k])
         THEN DispatchNoUpper(BucketAppend(d, ScanOrder[k], td[ScanOrder[k]], obj),
                              r, td, obj, k + 1)
         ELSE DispatchNoUpper(d, r, td, obj, k + 1)

RECURSIVE DispatchNoLower(_, _, _, _, _)
\* variant of Dispatch whose window test is timecount <= rules[catlabel]
DispatchNoLower(d, r, td, obj, k) ==
    IF k > Len(ScanOrder) THEN d
    ELSE IF td[ScanOrder[k]] <= RuleCount(r, ScanOrder[k])
         THEN DispatchNoLower(BucketAppend(d, ScanOrder[k], td[ScanOrder[k]], obj),
                              r, td, obj, k + 1)
         ELSE DispatchNoLower(d, r, td, obj, k + 1)

RECURSIVE Dispatch(_, _, _, _, _)
\* the scan `for catlabel in ("hours", ..., "years")` from position k on:
\* obj is appended to the bucket of EVERY category whose window holds its age
Dispatch(d, r, td, obj, k) ==
    IF k > Len(ScanOrder) THEN d
    ELSE IF 0 < td[ScanOrder[k]] /\ td[ScanOrder[k]] <= RuleCount(r, ScanOrder[k])
         THEN Dispatch(BucketAppend(d, ScanOrder[k], td[ScanOrder[k]], obj),
                       r, td, obj, k + 1)
         ELSE Dispatch(d, r, td, obj, k + 1)

\* one pass of the body of `for obj in objs` for an obj that does not raise;
\* st is [dicts, recent]
CategorizeOne(st, r, obj) ==
    LET td == Timedelta(moddate[obj], reftime) IN
    IF td.hours = 0
    THEN [st EXCEPT !.recent =
            IF RuleCount(r, "recent") > 0 THEN Append(@, obj) ELSE @]
    ELSE [st EXCEPT !.dicts = Dispatch(@, r, td, obj, 1)]

\* setattr(self, "_%s_dict" % catlabel, defaultdict(list)); self._recent_items = []
FreshState(r) ==
    [dicts  |-> [c \in Range(DictLabels(r)) |-> <<>>],
     recent |-> <<>>]

RECURSIVE InsertSorted(_, _)
\* x inserted into the sorted list s behind every element whose key is <= x's
InsertSorted(s, x) ==
    IF s = <<>> THEN <<x>>
    ELSE IF Later(moddate[s[Len(s)]], moddate[x])
         THEN Append(InsertSorted(SubSeq(s, 1, Len(s) - 1), x), s[Len(s)])
         ELSE Append(s, x)

RECURSIVE SortByModdate(_)
\* list.sort(key=lambda f: f.moddate): ascending and stable
SortByModdate(s) ==
    IF s = <<>> THEN <<>>
    ELSE InsertSorted(SortByModdate(SubSeq(s, 1, Len(s) - 1)), s[Len(s)])

\* variant of LastN that takes s[:n], the n oldest
FirstN(s, n) == IF n >= Len(s) THEN s ELSE SubSeq(s, 1, n)

\* s[-n:] of a Python list (s[-0:] is the whole list)
LastN(s, n) ==
    IF n = 0 \/ n >= Len(s) THEN s ELSE SubSeq(s, Len(s) - n + 1, Len(s))

\* the items added to accepted_objs from self._recent_items
AcceptedRecent(st, r) == Range(LastN(SortByModdate(st.recent), RuleCount(r, "recent")))

\* the <<category, timecount>> keys of all buckets
BucketKeys(st, r) ==
    UNION {{<<c, n>> : n \in DOMAIN st.dicts[c]} : c \in Range(DictLabels(r))}

\* variant of BucketSurvivor that takes catdict[timecount][-1] without the sort
BucketSurvivorUnsorted(st, c, n) == st.dicts[c][n][Len(st.dicts[c][n])]

\* catdict[timecount][-1] after catdict[timecount].sort(key=moddate)
BucketSurvivor(st, c, n) ==
    LET b == SortByModdate(st.dicts[c][n]) IN b[Len(b)]

\* the items added to accepted_objs from the category dictionaries
AcceptedBuckets(st, r) ==
    {BucketSurvivor(st, k[1], k[2]) : k \in BucketKeys(st, r)}

\* accepted_objs when the reduction is over
AcceptedSet(st, r) == AcceptedRecent(st, r) \cup AcceptedBuckets(st, r)

\* variant of Rejected that keeps every obj
RejectedAll(os, acc) == os

\* variant of Rejected that goes through objs in the order of the moddates, as
\* a difference of sorted collections would
RejectedSorted(os, acc) == SelectSeq(SortByModdate(os), LAMBDA o : o \notin acc)

\* [obj for obj in objs if obj not in accepted_objs]
Rejected(os, acc) == SelectSeq(os, LAMBDA o : o \notin acc)

RECURSIVE CategorizeAll(_, _, _, _)
\* the loop `for obj in objs` from position i on, for objs none of which raises
CategorizeAll(st, r, os, i) ==
    IF i > Len(os) THEN st
    ELSE CategorizeAll(CategorizeOne(st, r, os[i]), r, os, i + 1)

\* filter(os) raises TimeFilterError
FilterRaises(os) == \E i \in DOMAIN os : TimedeltaError(moddate[os[i]], reftime)

\* the self._*_dict and self._recent_items that filter(os) builds under rules r
Categorized(r, os) == CategorizeAll(FreshState(r), r, os, 1)

\* accepted_objs of filter(os) under rules r
FilterAccepted(r, os) == AcceptedSet(Categorized(r, os), r)

\* rejected_objs of filter(os) under rules r
FilterRejected(r, os) == Rejected(os, FilterAccepted(r, os))

RECURSIVE SortedSeqs(_)
\* sorted(accepted_objs, key=lambda f: f.moddate): the set is iterated in an
\* order the program does not control, so items of equal moddate may come
\* out in either order
SortedSeqs(S) ==
    IF S = {} THEN {<<>>}
    ELSE LET oldest == {x \in S : \A y \in S : ~ Later(moddate[x], moddate[y])}
         IN  UNION {{<<x>> \o t : t \in SortedSeqs(S \ {x})} : x \in oldest}

(***************************************************************************)
(* Inputs                                                                  *)
(***************************************************************************)
\* reference times: a Saturday noon, a Sunday, a Friday that is new year's
\* day, a Monday (all at 00:00 but the first)
RefSat == DT(2016, 12, 31, 12, 35, 0)
RefSun == DT(2016, 1, 3, 0, 0, 0)
RefNewYear == DT(2016, 1, 1, 0, 0, 0)
RefMon == DT(2016, 1, 4, 0, 0, 0)

Minute == 60
Hour == 3600
Day == 86400

\* a rules dictionary with one or two entries
R1(l, n) == l :> n
R2(l1, n1, l2, n2) == (l1 :> n1) @@ (l2 :> n2)

\* all sequences of at most MaxItems offsets from S
SeqsUpTo(S) == UNION {[1..n -> S] : n \in 0..MaxItems}

\* a scenario: the rules, the reference time and, per item, how many seconds
\* its moddate lies before the reference time
Scn(u, ref, offs) == [userrules |-> u, reftime |-> ref, offsets |-> offs]

\* young items, among them one second in the future and one at the reference time
YoungOffsets == {-1, 0, 10 * Minute, 20 * Minute, 65 * Minute, 70 * Minute}
YoungRules ==
    {R1("recent", 1), R1("recent", 2), R1("hours", 1),
     R2("hours", 2, "recent", 2), R2("days", 1, "recent", 0)}
YoungScenarios ==
    {Scn(u, ref, offs) : u \in YoungRules, ref \in {RefSat, RefNewYear},
                         offs \in SeqsUpTo(YoungOffsets)}

\* old items
OldOffsets == {1 * Day, 2 * Day, 5 * Day, 8 * Day, 40 * Day, 400 * Day}
OldRules ==
    {R1("days", 2), R2("days", 10, "weeks", 2), R2("weeks", 1, "months", 1),
     R2("months", 2, "years", 1), R2("days", 1, "years", 1)}
OldScenarios ==
    {Scn(u, ref, offs) : u \in OldRules, ref \in {RefSat, RefMon},
                         offs \in SeqsUpTo(OldOffsets)}

\* single category rules over items one, two and three units of that category
\* old at RefSat
SatUnit(c) ==
    CASE c = "recent" -> Minute
      [] c = "hours"  -> Hour
      [] c = "days"   -> Day
      [] c = "weeks"  -> 7 * Day
      [] c = "months" -> 31 * Day
      [] c = "years"  -> 366 * Day
SatOffsets(c) == {SatUnit(c), 2 * SatUnit(c), 3 * SatUnit(c)}
SatScenarios ==
    UNION {{Scn(R1(c, n), RefSat, offs) : n \in 1..2, offs \in SeqsUpTo(SatOffsets(c))} :
            c \in Range(valid_categories)}

\* the scenarios of test_api.py
Ages(n, unit) == [i \in 1..n |-> i * unit]
Days15Scenarios ==
    {Scn(R2("days", 10, "weeks", 2), ref, Ages(15, Day)) :
        ref \in {RefSun, RefMon, RefSat, RefNewYear}}
Hours28Scenarios ==
    {Scn(u, RefNewYear, Ages(28, Hour)) :
        u \in {R1("hours", 24), R1("days", 1), R2("hours", 24, "days", 1)}}
Recent10Scenarios == {Scn(R1("recent", 1), RefSat, Ages(10, Minute))}
Minutes6570Scenarios ==
    {Scn(R1("hours", 1), ref, offs) :
        ref \in {RefSat, RefSun, RefNewYear, RefMon,
                  DT(2016, 12, 31, 12, 4, 59), DT(2016, 12, 31, 12, 5, 0),
                  DT(2016, 12, 31, 12, 59, 59), DT(2016, 2, 29, 0, 10, 0)},
        offs \in {<<65 * Minute, 70 * Minute>>, <<70 * Minute, 65 * Minute>>}}

\* rules dictionaries that __init__ refuses
BadRules == {<<>>, R1("days", -1), R1("bogus", 1), R1("days", 0),
             R2("days", 1, "hours", -1), R2("days", 0, "recent", 0)}
BadRulesScenarios == {Scn(u, RefSat, <<Day>>) : u \in BadRules}

\* the rules dictionaries of TestTimeFilterInit, and two with an entry of 0
\* beside another entry
InitTestRules == {R2("days", 1, "wrong", 1), R1("days", 20),
                  R2("wrong", 0, "days", 1), R2("days", 0, "hours", 3)}
InitTestScenarios ==
    {Scn(u, RefSat, offs) : u \in InitTestRules,
                            offs \in {<<Day>>, <<2 * Hour, 20 * Day>>}}

\* test_types_math_year: t = 2015-03-01, ref = 2016-02-29; and an item 59
\* minutes old
TimedeltaTestScenarios ==
    {Scn(R1("years", 1), DT(2016, 2, 29, 0, 0, 0), <<365 * Day>>),
     Scn(R1("hours", 1), RefSat, <<59 * Minute>>)}

\* pairs of items around a reference time at which an hour, a day, a week, a
\* month and a year begin together (2018-01-01 is a Monday)
RefMonNewYear == DT(2018, 1, 1, 0, 0, 0)
BoundaryOffsets == {0, 1, 59 * Minute, 25 * Hour, 8 * Day, 40 * Day, 400 * Day}
BoundaryScenarios ==
    {Scn(u, ref, offs) : u \in {R2("hours", 1, "years", 1)},
                         ref \in {RefMonNewYear, DT(2018, 1, 1, 0, 0, 1)},
                         offs \in [1..2 -> BoundaryOffsets]}

Scenarios ==
    YoungScenarios \cup OldScenarios \cup SatScenarios \cup Days15Scenarios
    \cup Hours28Scenarios \cup Recent10Scenarios \cup Minutes6570Scenarios
    \cup BadRulesScenarios \cup InitTestScenarios \cup TimedeltaTestScenarios
    \cup BoundaryScenarios

(***************************************************************************)
(* The program                                                             *)
(***************************************************************************)
Init ==
    \E sc \in Scenarios :
        /\ userrules = sc.userrules
        /\ reftime = sc.reftime
        /\ moddate = [i \in DOMAIN sc.offsets |-> MinusSeconds(sc.reftime, sc.offsets[i])]
        /\ objs = [i \in DOMAIN sc.offsets |-> i]
        /\ pc = "new"
        /\ rules = <<>>
        /\ dicts = <<>>
        /\ recent_items = <<>>
        /\ idx = 0
        /\ result = NoResult
        /\ history = <<>>
        /\ threads = <<>>
        /\ heap = <<>>
        /\ bound = <<>>

\* TimeFilter.__init__
Construct ==
    /\ pc = "new"
    /\ IF RulesInvalid(userrules)
       THEN pc' = "policy_error" /\ rules' = rules
       ELSE pc' = "ready" /\ rules' = FillRules(userrules)
    /\ UNCHANGED <<userrules, reftime, moddate, objs, dicts, recent_items, idx, result,
                   history, threads, heap, bound>>

\* variant of FilterBegin that sets the scratch state up in the first call only
FilterBeginKeep ==
    /\ pc = "ready"
    /\ dicts' = IF history = <<>> THEN FreshState(rules).dicts ELSE dicts
    /\ recent_items' = IF history = <<>> THEN FreshState(rules).recent ELSE recent_items
    /\ idx' = 1
    /\ result' = NoResult
    /\ pc' = "categorize"
    /\ UNCHANGED <<userrules, reftime, moddate, objs, rules, history, threads, heap, bound>>

\* filter(): the scratch state is set up anew, objs is materialised
FilterBegin ==
    /\ pc = "ready"
    /\ dicts' = FreshState(rules).dicts
    /\ recent_items' = FreshState(rules).recent
    /\ idx' = 1
    /\ result' = NoResult
    /\ pc' = "categorize"
    /\ UNCHANGED <<userrules, reftime, moddate, objs, rules, history, threads, heap, bound>>

\* filter(): one pass of `for obj in objs` that categorises objs[idx]
Categorize ==
    /\ pc = "categorize"
    /\ idx <= Len(objs)
    /\ ~ TimedeltaError(moddate[objs[idx]], reftime)
    /\ LET st == CategorizeOne([dicts |-> dicts, recent |-> recent_items],
                               rules, objs[idx])
       IN  dicts' = st.dicts /\ recent_items' = st.recent
    /\ idx' = idx + 1
    /\ UNCHANGED <<userrules, reftime, moddate, objs, pc, rules, result, history, threads, heap, bound>>

\* filter(): _Timedelta raises for objs[idx], filter raises TimeFilterError
CategorizeRaise ==
    /\ pc = "categorize"
    /\ idx <= Len(objs)
    /\ TimedeltaError(moddate[objs[idx]], reftime)
    /\ pc' = "error"
    /\ UNCHANGED <<userrules, reftime, moddate, objs, rules, dicts, recent_items,
                   idx, result, history, threads, heap, bound>>

\* filter(): the reduction after the loop and the return
Reduce ==
    /\ pc = "categorize"
    /\ idx > Len(objs)
    /\ LET st  == [dicts |-> dicts, recent |-> recent_items]
           acc == AcceptedSet(st, rules)
       IN  /\ recent_items' = SortByModdate(recent_items)
           /\ dicts' = [c \in DOMAIN dicts |->
                          [n \in DOMAIN dicts[c] |-> SortByModdate(dicts[c][n])]]
           /\ \E a \in SortedSeqs(acc) :
                 result' = [accepted |-> a, rejected |-> Rejected(objs, acc),
                            returned |-> TRUE]
    /\ pc' = "done"
    /\ UNCHANGED <<userrules, reftime, moddate, objs, rules, idx, history, threads, heap, bound>>

Next == Construct \/ FilterBegin \/ Categorize \/ CategorizeRaise \/ Reduce

Spec == Init /\ [][Next]_vars

(***************************************************************************)
(* One TimeFilter used for several filter() calls, one after the other     *)
(***************************************************************************)
\* how many calls may precede a call
MaxCalls == 2

\* the objects the caller holds: one in the future, one recent, two of the
\* same clock hour an hour ago
CallPool == <<-1, 10 * Minute, 65 * Minute, 70 * Minute>>
CallRules == {R2("hours", 1, "recent", 1)}

InitCalls ==
    \E u \in CallRules : \E os \in SeqsUpTo(DOMAIN CallPool) :
        /\ userrules = u
        /\ reftime = RefSat
        /\ moddate = [i \in DOMAIN CallPool |-> MinusSeconds(RefSat, CallPool[i])]
        /\ objs = os
        /\ pc = "new"
        /\ rules = <<>>
        /\ dicts = <<>>
        /\ recent_items = <<>>
        /\ idx = 0
        /\ result = NoResult
        /\ history = <<>>
        /\ threads = <<>>
        /\ heap = <<>>
        /\ bound = <<>>

\* the caller calls filter() again, with any list of its objects, after a call
\* that returned or raised; the attributes of the TimeFilter are as that call
\* left them
CallAgain ==
    /\ pc \in {"done", "error"}
    /\ Len(history) < MaxCalls
    /\ history' = Append(history, pc)
    /\ \E os \in SeqsUpTo(DOMAIN moddate) : objs' = os
    /\ result' = NoResult
    /\ pc' = "ready"
    /\ UNCHANGED <<userrules, reftime, moddate, rules, dicts, recent_items, idx, threads, heap,
                   bound>>

NextCalls == Next \/ CallAgain

SpecCalls == InitCalls /\ [][NextCalls]_vars

(***************************************************************************)
(* One TimeFilter used by two filter() invocations at the same time, each  *)
(* in a thread of its own. The code holds no lock, so the threads switch   *)
(* between any two operations on the attributes of the TimeFilter and on   *)
(* the dictionaries and lists these refer to. objs, the loop position and  *)
(* accepted_objs are locals of an invocation; an attribute is a reference  *)
(* that a later setattr rebinds while a thread may still hold the object   *)
(* it read before.                                                         *)
(***************************************************************************)
\* the most items the two invocations are given together
MaxConcItems == 2

ConcInputs == UNION {[1..n -> DOMAIN CallPool] : n \in 0..MaxConcItems}

Threads == {"A", "B"}

\* a list object. CPython's list.sort empties the list while it sorts and
\* marks it (allocated = -1); an append clears the mark
EmptyList == [items |-> <<>>, sorting |-> FALSE]

\* the objects one invocation creates at lines 92-94: per category a
\* defaultdict(list), its entries [n, list] in the order of insertion, and the
\* recent list
EmptyObjects ==
    [dicts |-> [c \in Range(ScanOrder) |-> <<>>], recent |-> EmptyList]

\* the locals of an invocation that has just been called with os
NewLocals(os) ==
    [pc |-> "reset", objs |-> os, idx |-> 0, k |-> 1, ref |-> "none", n |-> 0,
     pending |-> <<>>, saved |-> <<>>, savedflag |-> FALSE, snap |-> 0, pos |-> 0,
     acc |-> {}, result |-> NoResult]

\* the attributes in the order lines 92-94 bind them
ResetOrder(r) == DictLabels(r) \o <<"recent">>

\* the categories the scan at lines 115-124 appends an item of ages td to
Matching(r, td) ==
    SelectSeq(ScanOrder, LAMBDA c : 0 < td[c] /\ td[c] <= RuleCount(r, c))

RECURSIVE ToItem(_, _, _)
\* the loop at line 100 from objs[i] on, up to the next operation on a shared
\* object: an append to the recent list, an append to a bucket, the raise of
\* TimeFilterError, or the end of the loop
ToItem(l, r, i) ==
    LET base == [l EXCEPT !.idx = i, !.ref = "none", !.n = 0, !.pending = <<>>] IN
    IF i > Len(l.objs) THEN [base EXCEPT !.pc = "sort_recent"]
    ELSE IF TimedeltaError(moddate[l.objs[i]], reftime) THEN [base EXCEPT !.pc = "error"]
    ELSE LET td == Timedelta(moddate[l.objs[i]], reftime) IN
         IF td.hours = 0
         THEN IF RuleCount(r, "recent") > 0
              THEN [base EXCEPT !.pc = "append_recent"]
              ELSE ToItem(l, r, i + 1)
         ELSE IF Matching(r, td) = <<>>
              THEN ToItem(l, r, i + 1)
              ELSE [base EXCEPT !.pc = "bucket_get", !.pending = Matching(r, td)]

\* the dictionary d has the key n
HasKey(d, n) == \E i \in DOMAIN d : d[i].n = n

\* where the key n stands in the dictionary d
KeyPos(d, n) == CHOOSE i \in DOMAIN d : d[i].n = n

\* list.append(obj)
ListAppend(lst, obj) == [items |-> Append(lst.items, obj), sorting |-> FALSE]

\* list.sort, first part: the list is emptied and marked
ListEmptied == [items |-> <<>>, sorting |-> TRUE]

\* list.sort, last part: the sorted items are put back and replace whatever
\* the list has come to hold; the mark is set as it was before the sort
ListRestored(saved, flag) == [items |-> SortByModdate(saved), sorting |-> flag]

InitConc ==
    \E u \in CallRules : \E os \in ConcInputs : \E os2 \in ConcInputs :
        /\ Len(os) + Len(os2) <= MaxConcItems
        /\ userrules = u
        /\ reftime = RefSat
        /\ moddate = [i \in DOMAIN CallPool |-> MinusSeconds(RefSat, CallPool[i])]
        /\ objs = <<>>
        /\ pc = "new"
        /\ rules = <<>>
        /\ dicts = <<>>
        /\ recent_items = <<>>
        /\ idx = 0
        /\ result = NoResult
        /\ history = <<>>
        /\ threads = [t \in Threads |-> NewLocals(IF t = "A" THEN os ELSE os2)]
        /\ heap = [t \in Threads |-> EmptyObjects]
        /\ bound = [c \in Range(valid_categories) |-> "none"]

\* lines 92-94, one setattr: an attribute of the TimeFilter is bound to a new
\* empty object
Reset(t) ==
    LET l == threads[t]
        a == ResetOrder(rules)[l.k]
    IN  /\ pc = "ready"
        /\ l.pc = "reset"
        /\ heap' = IF a = "recent"
                   THEN [heap EXCEPT ![t].recent = EmptyList]
                   ELSE [heap EXCEPT ![t].dicts[a] = <<>>]
        /\ bound' = [bound EXCEPT ![a] = t]
        /\ threads' = [threads EXCEPT ![t] =
                          IF l.k = Len(ResetOrder(rules))
                          THEN ToItem([l EXCEPT !.k = 0], rules, 1)
                          ELSE [l EXCEPT !.k = @ + 1]]
        /\ UNCHANGED <<userrules, reftime, moddate, objs, pc, rules, dicts,
                       recent_items, idx, result, history>>

\* line 111: self._recent_items.append(obj)
AppendRecent(t) ==
    LET l == threads[t] IN
    /\ l.pc = "append_recent"
    /\ heap' = [heap EXCEPT ![bound["recent"]].recent = ListAppend(@, l.objs[l.idx])]
    /\ threads' = [threads EXCEPT ![t] = ToItem(l, rules, l.idx + 1)]
    /\ UNCHANGED <<userrules, reftime, moddate, objs, pc, rules, dicts,
                   recent_items, idx, result, history, bound>>

\* line 124, getattr(self, ...)[timecount]: the defaultdict creates the bucket,
\* an empty list, when the key is new
BucketGet(t) ==
    LET l == threads[t]
        c == Head(l.pending)
        n == Timedelta(moddate[l.objs[l.idx]], reftime)[c]
        o == bound[c]
    IN  /\ l.pc = "bucket_get"
        /\ heap' = IF HasKey(heap[o].dicts[c], n) THEN heap
                   ELSE [heap EXCEPT ![o].dicts[c] =
                            Append(@, [n |-> n, list |-> EmptyList])]
        /\ threads' = [threads EXCEPT ![t] =
                          [l EXCEPT !.pc = "bucket_append", !.ref = o, !.n = n]]
        /\ UNCHANGED <<userrules, reftime, moddate, objs, pc, rules, dicts,
                       recent_items, idx, result, history, bound>>

\* line 124, .append(obj) on the bucket
BucketPut(t) ==
    LET l == threads[t]
        c == Head(l.pending)
        d == heap[l.ref].dicts[c]
    IN  /\ l.pc = "bucket_append"
        /\ heap' = [heap EXCEPT ![l.ref].dicts[c][KeyPos(d, l.n)].list =
                       ListAppend(@, l.objs[l.idx])]
        /\ threads' = [threads EXCEPT ![t] =
                          IF Tail(l.pending) = <<>>
                          THEN ToItem(l, rules, l.idx + 1)
                          ELSE [l EXCEPT !.pc = "bucket_get", !.pending = Tail(@),
                                         !.ref = "none", !.n = 0]]
        /\ UNCHANGED <<userrules, reftime, moddate, objs, pc, rules, dicts,
                       recent_items, idx, result, history, bound>>

\* line 132, self._recent_items.sort(...) up to the calls of the key function;
\* the sort of an empty list calls no key function and is over at once
SortRecentBegin(t) ==
    LET l == threads[t]
        o == bound["recent"]
    IN  /\ l.pc = "sort_recent"
        /\ IF heap[o].recent.items = <<>>
           THEN /\ heap' = heap
                /\ threads' = [threads EXCEPT ![t].pc = "slice_recent"]
           ELSE /\ heap' = [heap EXCEPT ![o].recent = ListEmptied]
                /\ threads' = [threads EXCEPT ![t] =
                                  [l EXCEPT !.pc = "sort_recent_end", !.ref = o,
                                            !.saved = heap[o].recent.items,
                                            !.savedflag = heap[o].recent.sorting]]
        /\ UNCHANGED <<userrules, reftime, moddate, objs, pc, rules, dicts,
                       recent_items, idx, result, history, bound>>

\* line 132, the end of the sort: ValueError("list modified during sort") when
\* the mark is gone
SortRecentEnd(t) ==
    LET l == threads[t] IN
    /\ l.pc = "sort_recent_end"
    /\ heap' = [heap EXCEPT ![l.ref].recent = ListRestored(l.saved, l.savedflag)]
    /\ threads' = [threads EXCEPT ![t] =
                      [l EXCEPT !.pc = IF heap[l.ref].recent.sorting
                                       THEN "slice_recent" ELSE "ValueError",
                                !.ref = "none", !.saved = <<>>, !.savedflag = FALSE]]
    /\ UNCHANGED <<userrules, reftime, moddate, objs, pc, rules, dicts,
                   recent_items, idx, result, history, bound>>

\* lines 133-134: the slice self._recent_items[-N:] is accepted
SliceRecent(t) ==
    LET l == threads[t] IN
    /\ l.pc = "slice_recent"
    /\ threads' = [threads EXCEPT ![t] =
                      [l EXCEPT !.pc = "cat_load", !.k = 1, !.pos = 0, !.snap = 0,
                                !.ref = "none",
                                !.acc = Range(LastN(heap[bound["recent"]].recent.items,
                                                    RuleCount(rules, "recent")))]]
    /\ UNCHANGED <<userrules, reftime, moddate, objs, pc, rules, dicts,
                   recent_items, idx, result, history, heap, bound>>

\* lines 143-144, catdict = getattr(self, ...) and the start of `for timecount
\* in catdict`: the iterator notes the size of the dictionary
CatLoad(t) ==
    LET l == threads[t]
        c == DictLabels(rules)[l.k]
    IN  /\ l.pc = "cat_load"
        /\ threads' = [threads EXCEPT ![t] =
                          [l EXCEPT !.pc = "cat_next", !.ref = bound[c], !.pos = 0,
                                    !.snap = Len(heap[bound[c]].dicts[c])]]
        /\ UNCHANGED <<userrules, reftime, moddate, objs, pc, rules, dicts,
                       recent_items, idx, result, history, heap, bound>>

\* line 144, one step of `for timecount in catdict`: the iterator raises
\* RuntimeError when the dictionary has changed its size; after the last
\* category the invocation returns (lines 157-158)
CatNext(t) ==
    LET l    == threads[t]
        c    == DictLabels(rules)[l.k]
        d    == heap[l.ref].dicts[c]
        last == l.k = Len(DictLabels(rules))
    IN  /\ l.pc = "cat_next"
        /\ \E a \in (IF Len(d) = l.snap /\ l.pos >= Len(d) /\ last
                     THEN SortedSeqs(l.acc) ELSE {<<>>}) :
             threads' = [threads EXCEPT ![t] =
                IF Len(d) # l.snap
                THEN [l EXCEPT !.pc = "RuntimeError"]
                ELSE IF l.pos < Len(d)
                THEN [l EXCEPT !.pc = "bucket_sort", !.pos = @ + 1, !.n = d[l.pos + 1].n]
                ELSE IF ~ last
                THEN [l EXCEPT !.pc = "cat_load", !.k = @ + 1, !.pos = 0, !.snap = 0,
                               !.ref = "none", !.n = 0]
                ELSE [l EXCEPT !.pc = "done", !.k = 0, !.pos = 0, !.snap = 0,
                               !.ref = "none", !.n = 0,
                               !.result = [accepted |-> a,
                                           rejected |-> Rejected(l.objs, l.acc),
                                           returned |-> TRUE]]]
        /\ UNCHANGED <<userrules, reftime, moddate, objs, pc, rules, dicts,
                       recent_items, idx, result, history, heap, bound>>

\* line 145, catdict[timecount].sort(...) up to the calls of the key function
BucketSortBegin(t) ==
    LET l == threads[t]
        c == DictLabels(rules)[l.k]
        d == heap[l.ref].dicts[c]
        b == d[KeyPos(d, l.n)].list
    IN  /\ l.pc = "bucket_sort"
        /\ IF b.items = <<>>
           THEN /\ heap' = heap
                /\ threads' = [threads EXCEPT ![t].pc = "bucket_last"]
           ELSE /\ heap' = [heap EXCEPT ![l.ref].dicts[c][KeyPos(d, l.n)].list =
                               ListEmptied]
                /\ threads' = [threads EXCEPT ![t] =
                                  [l EXCEPT !.pc = "bucket_sort_end",
                                            !.saved = b.items, !.savedflag = b.sorting]]
        /\ UNCHANGED <<userrules, reftime, moddate, objs, pc, rules, dicts,
                       recent_items, idx, result, history, bound>>

\* line 145, the end of the sort
BucketSortEnd(t) ==
    LET l == threads[t]
        c == DictLabels(rules)[l.k]
        d == heap[l.ref].dicts[c]
    IN  /\ l.pc = "bucket_sort_end"
        /\ heap' = [heap EXCEPT ![l.ref].dicts[c][KeyPos(d, l.n)].list =
                       ListRestored(l.saved, l.savedflag)]
        /\ threads' = [threads EXCEPT ![t] =
                          [l EXCEPT !.pc = IF d[KeyPos(d, l.n)].list.sorting
                                           THEN "bucket_last" ELSE "ValueError",
                                    !.saved = <<>>, !.savedflag = FALSE]]
        /\ UNCHANGED <<userrules, reftime, moddate, objs, pc, rules, dicts,
                       recent_items, idx, result, history, bound>>

\* line 147, accepted_objs.add(catdict[timecount][-1]): IndexError when the
\* bucket is empty
BucketLast(t) ==
    LET l == threads[t]
        c == DictLabels(rules)[l.k]
        d == heap[l.ref].dicts[c]
        b == d[KeyPos(d, l.n)].list
    IN  /\ l.pc = "bucket_last"
        /\ threads' = [threads EXCEPT ![t] =
                          IF b.items = <<>>
                          THEN [l EXCEPT !.pc = "IndexError"]
                          ELSE [l EXCEPT !.pc = "cat_next",
                                         !.acc = @ \cup {b.items[Len(b.items)]}]]
        /\ UNCHANGED <<userrules, reftime, moddate, objs, pc, rules, dicts,
                       recent_items, idx, result, history, heap, bound>>

NextConc ==
    \/ Construct
    \/ \E t \in Threads : Reset(t)
    \/ \E t \in Threads : AppendRecent(t)
    \/ \E t \in Threads : BucketGet(t)
    \/ \E t \in Threads : BucketPut(t)
    \/ \E t \in Threads : SortRecentBegin(t)
    \/ \E t \in Threads : SortRecentEnd(t)
    \/ \E t \in Threads : SliceRecent(t)
    \/ \E t \in Threads : CatLoad(t)
    \/ \E t \in Threads : CatNext(t)
    \/ \E t \in Threads : BucketSortBegin(t)
    \/ \E t \in Threads : BucketSortEnd(t)
    \/ \E t \in Threads : BucketLast(t)

SpecConc == InitConc /\ [][NextConc]_vars

(***************************************************************************)
(* Vocabulary of the properties                                            *)
(***************************************************************************)
\* the accepted and the rejected items of the returned partition
Acc == Range(result.accepted)
Rej == Range(result.rejected)

\* the age of item i in category c, as filter() computes it
Age(i, c) == Timedelta(moddate[i], reftime)[c]

\* the items of the input whose hours age is 0
RecentItems == {i \in Range(objs) : Age(i, "hours") = 0}

\* item a is at least as new as item b
AsNewAs(a, b) == ~ Later(moddate[b], moddate[a])

\* the rearrangements of the sequence os
Orderings(os) ==
    {[i \in DOMAIN os |-> os[f[i]]] :
        f \in {g \in [DOMAIN os -> DOMAIN os] : \A i, j \in DOMAIN os : g[i] = g[j] => i = j}}

Reverse(os) == [i \in DOMAIN os |-> os[Len(os) + 1 - i]]

\* the rearrangements a property is checked on: all of them for a short input,
\* the reversal for a long one
Rearrangements(os) ==
    IF Len(os) <= MaxItems THEN Orderings(os) ELSE {Reverse(os)}

\* the moddates of a set of items, with the number of items at each
ModdateCounts(S) ==
    [t \in {moddate[i] : i \in S} |-> Cardinality({i \in S : moddate[i] = t})]

DistinctModdates(S) == \A i, j \in S : moddate[i] = moddate[j] => i = j

\* the position of item x in the sequence os
Pos(os, x) == CHOOSE k \in DOMAIN os : os[k] = x

\* item i lies n units of `unit` seconds before the reference time
AgedExactly(i, n, unit) == moddate[i] = MinusSeconds(reftime, n * unit)

\* the scenarios of the tests
IsDays15 ==
    /\ userrules = R2("days", 10, "weeks", 2)
    /\ Len(objs) = 15
    /\ \A i \in DOMAIN objs : AgedExactly(objs[i], i, Day)
IsHours28 ==
    /\ Len(objs) = 28
    /\ \A i \in DOMAIN objs : AgedExactly(objs[i], i, Hour)
IsRecent10 ==
    /\ userrules = R1("recent", 1)
    /\ Len(objs) = 10
    /\ \A i \in DOMAIN objs : AgedExactly(objs[i], i, Minute)
    /\ RecentItems = Range(objs)

(***************************************************************************)
(* C1  Partition completeness: when filter returns, every input item is in *)
(* exactly one of accepted and rejected: accepted united with rejected is  *)
(* the input, no item is in both, and neither result repeats an item.      *)
(***************************************************************************)
C1_PartitionComplete ==
    pc = "done" =>
        /\ Acc \cup Rej = Range(objs)
        /\ Acc \cap Rej = {}
        /\ Len(result.accepted) + Len(result.rejected) = Len(objs)

C1_Witness ==
    pc = "done" /\ Acc # {} /\ Rej # {} /\ Len(objs) >= 3

(***************************************************************************)
(* C2  Order independence as claimed: every rearrangement of the input,    *)
(* also of an input in which distinct items carry the same timestamp,      *)
(* yields the same accepted set.                                           *)
(***************************************************************************)
C2_OrderIndependentWithTies ==
    pc = "done" =>
        \A p \in Rearrangements(objs) : FilterAccepted(rules, p) = Acc

(***************************************************************************)
(* C2, amended  Every rearrangement of the input yields accepted items     *)
(* with the same timestamps, as many at each timestamp; when the items of  *)
(* the input carry pairwise distinct timestamps it yields the same         *)
(* accepted set.  Which of several items of equal timestamp is accepted    *)
(* follows the input order.                                                *)
(***************************************************************************)
C2_OrderIndependent ==
    pc = "done" =>
        \A p \in Rearrangements(objs) :
            LET a == FilterAccepted(rules, p)
            IN  /\ ModdateCounts(a) = ModdateCounts(Acc)
                /\ DistinctModdates(Range(objs)) => a = Acc

C2_Witness ==
    /\ pc = "done" /\ Len(objs) = 3 /\ DistinctModdates(Range(objs))
    /\ Acc # {} /\ Rej # {}
    /\ Later(moddate[objs[1]], moddate[objs[2]])
    /\ Later(moddate[objs[3]], moddate[objs[2]])

(***************************************************************************)
(* C3  15 items aged 1..15 days, rules {days: 10, weeks: 2}: exactly the   *)
(* items aged 1..10 and 14 days are accepted, those aged 11, 12, 13 and 15 *)
(* days are rejected, at whatever reference time the ages are measured.    *)
(***************************************************************************)
C3_Days15Accepts11 ==
    (pc = "done" /\ IsDays15) =>
        /\ Acc = (1..10) \cup {14}
        /\ Rej = {11, 12, 13, 15}

(***************************************************************************)
(* C4  Consumption by younger categories: an item inside the window of a   *)
(* younger category is not available to an older one, so every older       *)
(* window (c, n) is represented by the newest item of age n in c that no   *)
(* younger category consumed.  For the items aged 1..15 days under         *)
(* {days: 10, weeks: 2} the items aged 1..11 and 14 days are accepted; for *)
(* the items aged 1..28 hours under {hours: 24, days: 1} the 25 youngest.  *)
(***************************************************************************)
Consumed(i, c) ==
    \E k \in DOMAIN ScanOrder :
        /\ k < Pos(ScanOrder, c)
        /\ 0 < Age(i, ScanOrder[k])
        /\ Age(i, ScanOrder[k]) <= RuleCount(rules, ScanOrder[k])

Unconsumed(c, n) ==
    {i \in Range(objs) : Age(i, "hours") > 0 /\ Age(i, c) = n /\ ~ Consumed(i, c)}

C4_YoungerConsumes ==
    pc = "done" =>
        /\ \A c \in Range(ScanOrder) : \A n \in 1..RuleCount(rules, c) :
              Unconsumed(c, n) # {} =>
                \E a \in Unconsumed(c, n) :
                    /\ Unconsumed(c, n) \cap Acc = {a}
                    /\ \A x \in Unconsumed(c, n) : AsNewAs(a, x)
        /\ IsDays15 => Acc = (1..11) \cup {14} /\ Rej = {12, 13, 15}
        /\ (IsHours28 /\ userrules = R2("hours", 24, "days", 1)) => Acc = 1..25

(***************************************************************************)
(* C5  Bucket single survivor: of every populated bucket exactly one item  *)
(* is accepted, one of maximal timestamp in the bucket, and every other    *)
(* item placed in the bucket is rejected.                                  *)
(***************************************************************************)
C5_BucketSingleSurvivor ==
    pc = "done" =>
        \A c \in DOMAIN dicts : \A n \in DOMAIN dicts[c] :
            \E a \in Range(dicts[c][n]) :
                /\ Range(dicts[c][n]) \cap Acc = {a}
                /\ \A x \in Range(dicts[c][n]) : AsNewAs(a, x)
                /\ Range(dicts[c][n]) \ {a} \subseteq Rej

(***************************************************************************)
(* C6  Recent newest-N: of the items whose hours age is 0 exactly the      *)
(* rules[recent] newest are accepted (all of them when there are fewer,    *)
(* none when rules[recent] is 0): as many as that are accepted, and no     *)
(* rejected one is newer than an accepted one, whatever the other          *)
(* categories request.  Of 10 recent items at distinct timestamps under    *)
(* {recent: 1} exactly the most recent one is accepted.                    *)
(***************************************************************************)
Min(a, b) == IF a <= b THEN a ELSE b

C6_RecentNewestN ==
    pc = "done" =>
        /\ Cardinality(RecentItems \cap Acc)
              = Min(RuleCount(rules, "recent"), Cardinality(RecentItems))
        /\ \A a \in RecentItems \cap Acc : \A x \in RecentItems \ Acc :
              /\ AsNewAs(a, x)
              /\ x \in Rej
        /\ IsRecent10 => Acc = {objs[1]} /\ \A i \in Range(objs) : AsNewAs(objs[1], i)

C6_Witness ==
    /\ pc = "done"
    /\ RuleCount(rules, "recent") = 2
    /\ RuleCount(rules, "hours") > 0
    /\ Cardinality(RecentItems) = 3
    /\ DistinctModdates(RecentItems)
    /\ Cardinality(RecentItems \cap Acc) = 2

(***************************************************************************)
(* C7  Two items aged 65 and 70 minutes, rules {hours: 1}: at every        *)
(* reference time the 65 minute item is accepted and the 70 minute item    *)
(* is rejected.                                                            *)
(***************************************************************************)
IsMinutes6570 ==
    /\ userrules = R1("hours", 1)
    /\ Len(objs) = 2
    /\ \E i, j \in Range(objs) :
          AgedExactly(i, 65, Minute) /\ AgedExactly(j, 70, Minute)

C7_Minutes6570 ==
    (pc = "done" /\ IsMinutes6570) =>
        \A i, j \in Range(objs) :
            (AgedExactly(i, 65, Minute) /\ AgedExactly(j, 70, Minute))
                => (Acc = {i} /\ Rej = {j})

(***************************************************************************)
(* C8  Saturation: under rules that request one category c only, with      *)
(* count N, and an input of k items, one at each age 1..k of c (for        *)
(* c = recent: k items of hours age 0), the accepted items are those of    *)
(* age at most N (for recent: N of them): all of them when k <= N, none    *)
(* rejected, and the N youngest ages when k > N.  A category whose count   *)
(* is 0 contributes no accepted item: it has no bucket (recent: no recent  *)
(* item is accepted).                                                      *)
(***************************************************************************)
\* the rules request category c alone
OnlyCategory(c) ==
    /\ RuleCount(rules, c) > 0
    /\ \A c2 \in Range(valid_categories) \ {c} : RuleCount(rules, c2) = 0

\* the input holds one item at each age 1..Len(objs) of category c
OnePerAge(c) ==
    /\ \A i \in Range(objs) : Age(i, c) \in 1..Len(objs)
    /\ \A i, j \in Range(objs) : Age(i, c) = Age(j, c) => i = j

C8_Saturation ==
    pc = "done" =>
        /\ \A c \in Range(ScanOrder) :
              (OnlyCategory(c) /\ OnePerAge(c)) =>
                /\ Acc = {i \in Range(objs) : Age(i, c) <= RuleCount(rules, c)}
                /\ Len(objs) <= RuleCount(rules, c) => (Acc = Range(objs) /\ Rej = {})
        /\ (OnlyCategory("recent") /\ RecentItems = Range(objs)) =>
                /\ Cardinality(Acc) = Min(RuleCount(rules, "recent"), Len(objs))
                /\ Len(objs) <= RuleCount(rules, "recent") => (Acc = Range(objs) /\ Rej = {})
        /\ \A c \in DOMAIN dicts : RuleCount(rules, c) = 0 => DOMAIN dicts[c] = {}
        /\ RuleCount(rules, "recent") = 0 => (recent_items = <<>> /\ RecentItems \cap Acc = {})

C8_Witness ==
    /\ pc = "done"
    /\ OnlyCategory("weeks") /\ OnePerAge("weeks")
    /\ RuleCount(rules, "weeks") = 2
    /\ Len(objs) = 3
    /\ Cardinality(Acc) = 2

\* a further case of C8: as many items as requested, all accepted
C8_WitnessAll ==
    /\ pc = "done"
    /\ OnlyCategory("months") /\ OnePerAge("months")
    /\ RuleCount(rules, "months") = 2
    /\ Len(objs) = 2
    /\ Rej = {}

(***************************************************************************)
(* C9  Rejected order: the rejected result is the input with the accepted  *)
(* items removed: it holds every item that is not accepted once, and any   *)
(* two rejected items stand in the order in which they stand in the input. *)
(***************************************************************************)
C9_RejectedInInputOrder ==
    pc = "done" =>
        /\ Rej = Range(objs) \ Acc
        /\ \A k, l \in DOMAIN result.rejected :
              k < l => Pos(objs, result.rejected[k]) < Pos(objs, result.rejected[l])

C9_Witness ==
    /\ pc = "done"
    /\ Len(result.rejected) >= 2
    /\ Acc # {}
    /\ Later(moddate[result.rejected[1]], moddate[result.rejected[2]])

(***************************************************************************)
(* C10  A future timestamp aborts the call: filter raises if and only if   *)
(* some item of the input, at whatever position, has a timestamp strictly  *)
(* later than the reference time (one equal to it is no error), and then   *)
(* it returns no partition.                                                *)
(***************************************************************************)
C10_FutureAborts ==
    /\ pc = "error" =>
          /\ \E i \in Range(objs) : Later(moddate[i], reftime)
          /\ ~ result.returned
    /\ pc = "done" =>
          /\ \A i \in Range(objs) : ~ Later(moddate[i], reftime)
          /\ result.returned
    /\ (pc = "categorize" /\ idx > 1) => ~ Later(moddate[objs[idx - 1]], reftime)

C10_Witness ==
    /\ pc = "error"
    /\ idx = 3
    /\ moddate[objs[1]] = reftime
    /\ Later(moddate[objs[3]], reftime)

(***************************************************************************)
(* C11  Policy validation is exact: __init__ fails with TimeFilterError if *)
(* and only if the rules mapping is empty, or some count is negative, or   *)
(* some key is none of years, months, weeks, days, hours, recent, or every *)
(* count is 0; in every other case the TimeFilter is constructed.          *)
(***************************************************************************)
Constructed == pc \notin {"new", "policy_error"}

SixCategories == {"years", "months", "weeks", "days", "hours", "recent"}

C11_PolicyValidationExact ==
    pc # "new" =>
        (pc = "policy_error" <=>
            \/ userrules = <<>>
            \/ \E l \in DOMAIN userrules : userrules[l] < 0
            \/ DOMAIN userrules \ SixCategories # {}
            \/ \A l \in DOMAIN userrules : userrules[l] = 0)

\* a dictionary with an entry of 0 and a positive one is accepted
C11_Witness ==
    /\ Constructed
    /\ \E l \in DOMAIN userrules : userrules[l] = 0
    /\ \E l \in DOMAIN userrules : userrules[l] > 0

\* a dictionary with a positive count and an unknown key of count 0 is refused
C11_WitnessRefused ==
    /\ pc = "policy_error"
    /\ \E l \in DOMAIN userrules : userrules[l] > 0
    /\ \E l \in DOMAIN userrules : l \notin SixCategories /\ userrules[l] = 0

(***************************************************************************)
(* C12  Policy completion: after a successful __init__ the stored rules    *)
(* hold exactly the six categories in the order years, months, weeks,      *)
(* days, hours, recent; a category the caller gave keeps the caller's      *)
(* count and every other category has the count 0.                         *)
(***************************************************************************)
CanonicalOrder == <<"years", "months", "weeks", "days", "hours", "recent">>

C12_PolicyCompletion ==
    Constructed =>
        /\ Len(rules) = 6
        /\ [i \in 1..6 |-> rules[i][1]] = CanonicalOrder
        /\ \A i \in 1..6 :
              /\ rules[i][1] \in DOMAIN userrules => rules[i][2] = userrules[rules[i][1]]
              /\ rules[i][1] \notin DOMAIN userrules => rules[i][2] = 0

\* {"days": 20} of test_fillup_rules_default_rules, completed and used
C12_Witness ==
    /\ pc = "done"
    /\ userrules = R1("days", 20)
    /\ rules = <<<<"years", 0>>, <<"months", 0>>, <<"weeks", 0>>,
                 <<"days", 20>>, <<"hours", 0>>, <<"recent", 0>>>>

(***************************************************************************)
(* C13  Linear age units: for every item not later than the reference time *)
(* each age is the truncating division of the elapsed seconds by the unit  *)
(* of its category: 3600 for hours, 86400 for days, 604800 for weeks,      *)
(* 2592000 for months and 31536000 for years. An item 59 minutes old has   *)
(* the hours age 0; an item 365 days old has years 1, months 12, weeks 52  *)
(* and days 365.                                                           *)
(***************************************************************************)
ElapsedSeconds(i) ==
    (ToOrdinal(reftime) - ToOrdinal(moddate[i])) * Day
        + SecondOfDay(reftime) - SecondOfDay(moddate[i])

LinearAge(i) ==
    [hours  |-> ElapsedSeconds(i) \div Hour,
     days   |-> ElapsedSeconds(i) \div Day,
     weeks  |-> ElapsedSeconds(i) \div (7 * Day),
     months |-> ElapsedSeconds(i) \div (30 * Day),
     years  |-> ElapsedSeconds(i) \div (365 * Day)]

\* the items the categorisation loop has gone through
Categorised ==
    IF pc \in {"categorize", "done"} THEN {objs[k] : k \in 1..(idx - 1)} ELSE {}

C13_LinearAgeUnits ==
    \A i \in Categorised : Timedelta(moddate[i], reftime) = LinearAge(i)

(***************************************************************************)
(* C16  At most one bucket per item: an item that is not recent is placed  *)
(* in the bucket of the first category, scanning from hours to years, that *)
(* holds its age in its window, and no older category is examined for it;  *)
(* no item is a member of two buckets, and the number of accepted items is *)
(* the number of populated buckets plus the number of accepted recent      *)
(* items.                                                                  *)
(***************************************************************************)
BucketsOf(i) ==
    {k \in BucketKeys([dicts |-> dicts, recent |-> recent_items], rules) :
        i \in Range(dicts[k[1]][k[2]])}

C16_OneBucketPerItem ==
    /\ pc \in {"categorize", "done"} =>
          \A i \in Range(objs) : Cardinality(BucketsOf(i)) <= 1
    /\ pc = "done" =>
          Cardinality(Acc) =
              Cardinality(BucketKeys([dicts |-> dicts, recent |-> recent_items], rules))
              + Cardinality(Acc \cap RecentItems)

(***************************************************************************)
(* C17  Unclaimed items are rejected: an item whose hours age is above 0   *)
(* and whose age lies in the window 0 < age <= count of no category is in  *)
(* no bucket and is rejected, so every accepted item that is not recent    *)
(* lies in the window of at least one category. A policy with the single   *)
(* category c of count N accepts nothing when every item has an age in c   *)
(* that is above N or is 0.                                                *)
(***************************************************************************)
InWindow(i, c) == 0 < Age(i, c) /\ Age(i, c) <= RuleCount(rules, c)

Unclaimed ==
    {i \in Range(objs) :
        Age(i, "hours") > 0 /\ \A c \in Range(ScanOrder) : ~ InWindow(i, c)}

C17_UnclaimedRejected ==
    pc = "done" =>
        /\ \A i \in Unclaimed : BucketsOf(i) = {} /\ i \in Rej
        /\ \A i \in Acc \ RecentItems : \E c \in Range(ScanOrder) : InWindow(i, c)
        /\ \A c \in Range(ScanOrder) :
              (/\ DOMAIN userrules = {c}
               /\ \A i \in Range(objs) : Age(i, c) > userrules[c] \/ Age(i, c) = 0)
              => Acc = {}

\* an item older than an hour of the same day is unclaimed under {days: 1}
C17_Witness ==
    /\ pc = "done"
    /\ \E i \in Unclaimed : Age(i, "days") = 0 /\ i \in Rej
    /\ Acc # {}

(***************************************************************************)
(* C18  filter is total on valid input: for every constructed policy and   *)
(* every finite input whose timestamps are not later than the reference    *)
(* time, filter terminates and returns a partition without an error; no    *)
(* policy error occurs during filter, and every bucket that exists when    *)
(* the buckets are reduced holds at least one item.                        *)
(***************************************************************************)
NoFutureItem == \A i \in Range(objs) : ~ Later(moddate[i], reftime)

\* the steps filter has still to take: the passes of the loop that are left,
\* and the reduction
StepsLeft ==
    CASE pc = "ready"      -> Len(objs) + 2
      [] pc = "categorize" -> Len(objs) + 2 - idx
      [] OTHER             -> 0

\* the reduction can be taken: the loop is over and its result is defined,
\* a survivor for every bucket and a sorted list of the accepted items
CanReduce ==
    /\ pc = "categorize"
    /\ idx > Len(objs)
    /\ \A c \in DOMAIN dicts : \A n \in DOMAIN dicts[c] :
          BucketSurvivor([dicts |-> dicts, recent |-> recent_items], c, n)
              \in Range(dicts[c][n])
    /\ SortedSeqs(AcceptedSet([dicts |-> dicts, recent |-> recent_items], rules)) # {}

FilterSafe ==
    (Constructed /\ NoFutureItem) =>
        /\ pc \in {"ready", "categorize", "done"}
        /\ pc # "done" => (ENABLED (FilterBegin \/ Categorize)) \/ CanReduce
        /\ pc = "categorize" =>
              /\ idx \in 1..(Len(objs) + 1)
              /\ \A c \in DOMAIN dicts : \A n \in DOMAIN dicts[c] : dicts[c][n] # <<>>
        /\ pc = "done" =>
              /\ result.returned
              /\ Acc \cup Rej = Range(objs)
              /\ Acc \cap Rej = {}

\* on valid input filter is never in an error, can always take its next step
\* until it has returned, and every step leaves fewer steps to take
C18_FilterTotal ==
    /\ [] FilterSafe
    /\ [][Constructed => StepsLeft' < StepsLeft]_vars

\* a call that returned after it reduced two buckets
C18_Witness ==
    /\ pc = "done"
    /\ NoFutureItem
    /\ Cardinality(BucketKeys([dicts |-> dicts, recent |-> recent_items], rules)) >= 2
    /\ Rej # {}

(***************************************************************************)
(* C19  The accepted count is bounded by the policy: the number of         *)
(* accepted items is at most the sum of the counts of the policy; at most  *)
(* policy[recent] accepted items have the hours age 0; and for every other *)
(* category c at most policy[c] accepted items are survivors of buckets of *)
(* c.                                                                      *)
(***************************************************************************)
PolicySum ==
    RuleCount(rules, "years") + RuleCount(rules, "months") + RuleCount(rules, "weeks")
    + RuleCount(rules, "days") + RuleCount(rules, "hours") + RuleCount(rules, "recent")

SurvivorsOf(c) ==
    {BucketSurvivor([dicts |-> dicts, recent |-> recent_items], c, n) :
        n \in DOMAIN dicts[c]}

C19_AcceptedBounded ==
    pc = "done" =>
        /\ Cardinality(Acc) <= PolicySum
        /\ Cardinality(Acc \cap RecentItems) <= RuleCount(rules, "recent")
        /\ \A c \in Range(ScanOrder) :
              /\ SurvivorsOf(c) \subseteq Acc
              /\ Cardinality(SurvivorsOf(c)) <= RuleCount(rules, c)

\* the policy is used up: more recent items than policy[recent] were given
C19_Witness ==
    /\ pc = "done"
    /\ Cardinality(Acc) = PolicySum
    /\ RuleCount(rules, "recent") = 2
    /\ Cardinality(RecentItems) > 2

(***************************************************************************)
(* C20  Retention is monotone in the policy: for a fixed input and         *)
(* reference time, raising the count of one category and leaving the       *)
(* others unchanged never turns an accepted item into a rejected one: the  *)
(* accepted set under the smaller policy is a subset of the accepted set   *)
(* under the larger policy.                                                *)
(***************************************************************************)
\* by how much a count is raised
MaxRaise == 2

\* the policy r with the count of category c raised by k
Raised(r, c, k) ==
    [i \in DOMAIN r |-> IF r[i][1] = c THEN <<c, r[i][2] + k>> ELSE r[i]]

C20_MonotoneInPolicy ==
    pc = "done" =>
        \A c \in Range(valid_categories) : \A k \in 1..MaxRaise :
            Acc \subseteq FilterAccepted(Raised(rules, c, k), objs)

\* an accepted item stays accepted where the raised count accepts more
C20_Witness ==
    /\ pc = "done"
    /\ Acc # {}
    /\ Rej # {}
    /\ \E c \in Range(ScanOrder) :
          /\ RuleCount(rules, c) > 0
          /\ Acc \subseteq FilterAccepted(Raised(rules, c, 1), objs)
          /\ Acc # FilterAccepted(Raised(rules, c, 1), objs)

(***************************************************************************)
(* C14  No cross-call state: after any sequence of earlier filter calls on *)
(* the same TimeFilter, calls that returned and calls that failed part of  *)
(* the way, a filter call returns the accepted set and the rejected        *)
(* sequence that the same call returns on a freshly constructed TimeFilter *)
(* of the same policy.                                                     *)
(***************************************************************************)
C14_NoCrossCallState ==
    history # <<>> =>
        /\ pc = "done" =>
              /\ ~ FilterRaises(objs)
              /\ Acc = FilterAccepted(rules, objs)
              /\ result.accepted \in SortedSeqs(FilterAccepted(rules, objs))
              /\ result.rejected = FilterRejected(rules, objs)
        /\ pc = "error" => FilterRaises(objs)

\* a call that accepts and rejects, after a call that failed
C14_Witness ==
    /\ pc = "done"
    /\ "error" \in Range(history)
    /\ dicts["hours"] # <<>>
    /\ Acc # {}
    /\ Rej # {}

(***************************************************************************)
(* C15  Concurrent reuse of one policy: when two filter invocations that   *)
(* share the same TimeFilter run with their steps arbitrarily interleaved, *)
(* each invocation returns exactly the partition it returns when it runs   *)
(* alone; no interleaving lets the items of one call appear in, or change, *)
(* the result of the other.                                                *)
(***************************************************************************)
\* an invocation on the list os that ended as p with the value res did what it
\* does alone
AsAlone(p, os, res) ==
    /\ p = "done" =>
          /\ ~ FilterRaises(os)
          /\ Range(res.accepted) = FilterAccepted(rules, os)
          /\ res.rejected = FilterRejected(rules, os)
    /\ p = "error" => FilterRaises(os)
    /\ p \notin {"IndexError", "ValueError", "RuntimeError"}

C15_ConcurrentReuse ==
    \A t \in DOMAIN threads : AsAlone(threads[t].pc, threads[t].objs, threads[t].result)

(***************************************************************************)
(* C21  Age is monotone in the timestamp: for all t1 <= t2 <= ref each of  *)
(* the fields hours, days, weeks, months, years of _Timedelta(t1, ref) is  *)
(* greater than or equal to the same field of _Timedelta(t2, ref); so      *)
(* every field is non-negative whenever t <= ref, and an item whose hours  *)
(* age is 0 has the days, weeks, months and years age 0 as well.           *)
(***************************************************************************)
\* the item the loop has categorised last
JustCategorised == objs[idx - 1]

\* the fields of a is at least those of b
FieldsAtLeast(a, b) == \A c \in Range(ScanOrder) : a[c] >= b[c]

C21_AgeMonotone ==
    (pc = "categorize" /\ idx > 1) =>
        LET td == Timedelta(moddate[JustCategorised], reftime) IN
        /\ \A c \in Range(ScanOrder) : td[c] >= 0
        /\ td.hours = 0 => \A c \in Range(ScanOrder) : td[c] = 0
        /\ \A k \in 1..(idx - 2) :
              LET tk == Timedelta(moddate[objs[k]], reftime) IN
              /\ AsNewAs(JustCategorised, objs[k]) => FieldsAtLeast(tk, td)
              /\ AsNewAs(objs[k], JustCategorised) => FieldsAtLeast(td, tk)

\* an item of the reference hour after one a second older whose ages are
\* above it in every field
C21_Witness ==
    /\ pc = "categorize"
    /\ idx = 3
    /\ Age(objs[2], "hours") = 0
    /\ moddate[objs[1]] = MinusSeconds(moddate[objs[2]], 1)
    /\ \A c \in Range(ScanOrder) : Age(objs[1], c) > 0

====
